---- MODULE Spec2Model ----
(***************************************************************************)
(* A model of memory-cache-rs: MemoryCache<A, B> (src/src/lib.rs) and      *)
(* CacheEntry<B> (src/src/entry.rs).                                       *)
(*                                                                         *)
(* Option<T> is modelled as a set with at most one element: None is {}     *)
(* and Some(x) is {x}.  SystemTime is a natural number, Duration a natural *)
(* number.  The HashMap is a function whose domain is the set of keys it   *)
(* holds.  SystemTime::now() reads the variable clock; SystemTime is not   *)
(* monotonic, so the clock may also step backwards (action ClockBack).     *)
(***************************************************************************)
EXTENDS Integers, FiniteSets, Sequences

\* ---------------------------------------------------------------- bounds
MaxTime == 2      \* the clock ranges over 0..MaxTime
MaxCalls == 2     \* calls of the cached! function each thread makes from outside

Keys == {"a", "b"}
Values == {1, 2}

None == {}
Some(x) == {x}

\* The content of an Option that is Some.
The(opt) == CHOOSE x \in opt : TRUE

\* The lifetimes callers pass, and the scan frequencies of with_full_scan.
Lifetimes == {None, Some(0), Some(1)}
Frequencies == {Some(0), Some(1)}

\* The threads that call a function defined with cached!, and its arguments:
\* the body of the function at x > 0 calls the function at x - 1.
Threads == {"t1", "t2"}
Args == {0, 1}

\* ------------------------------------------------------- record of a call
\* What the variable last holds of the call that has just returned.  The field
\* op comes first: two records of different methods differ in it, and their
\* ret fields (a bool, an Option, a value) are never compared.
\* purged (history, kept where the history flag is set): the keys other than
\* the call's own that the call's sweep took out of the table.  replaced (history likewise):
\* the last_scan_time the call's sweep wrote over.
Call(op, key, value, lifetime, now, entry_time, ret, calls, swept) ==
    [op |-> op, key |-> key, value |-> value, lifetime |-> lifetime,
     now |-> now, entry_time |-> entry_time, ret |-> ret, calls |-> calls,
     swept |-> swept, purged |-> {}, replaced |-> None]

Idle == Call("none", None, None, None, None, None, None, 0, FALSE)

VARIABLES
    cache_table,          \* HashMap<A, CacheEntry<B>>
    full_scan_frequency,  \* Option<Duration>
    created_time,         \* SystemTime
    last_scan_time,       \* Option<SystemTime>
    clock,                \* what SystemTime::now() returns
    written,              \* history, kept where the history flag is set: for
                          \* each key of the
                          \* table, the lifetime its entry was constructed with
    presweep,             \* history, kept where the history flag is set: the
                          \* keys whose entry
                          \* was written before the call that ran the latest sweep
    last,                 \* the call that has just returned: its arguments, clock
                          \* readings and result (Idle when the last step was no
                          \* call that returned)
    panicked,             \* Option: the call that panicked (the program stops there)
    mutex,                \* cached!: Option, the thread that holds the Mutex of CACHE
    stack,                \* cached!: for each thread, the frames of its calls of
                          \* the cached function, the innermost last
    started,              \* cached!: for each thread, the calls made from outside
    inserted              \* cached! history: for each argument some call has
                          \* inserted a result for, the value of the last insert

\* The state of the threads that use the cache through cached!
cached == <<mutex, stack, started, inserted>>

vars == <<cache_table, full_scan_frequency, created_time, last_scan_time,
          clock, written, presweep, last, panicked, mutex, stack, started,
          inserted>>

\* ------------------------------------------------------------ CacheEntry

\* A bug variant of CacheEntry::new: the duration is not added to the clock reading.
CacheEntry_new_no_ttl(value, duration, sys_now) ==
    [value |-> value, expiration |-> {sys_now : d \in duration}]

\* CacheEntry::new; sys_now is the value SystemTime::now() returns inside it.
CacheEntry_new(value, duration, sys_now) ==
    [value |-> value, expiration |-> {sys_now + d : d \in duration}]

\* A bug variant: expires strictly after the boundary instant.
is_expired_strict(entry, current_time) ==
    \E time \in entry.expiration : current_time > time

\* CacheEntry::is_expired
is_expired(entry, current_time) ==
    \E time \in entry.expiration : current_time >= time

\* ----------------------------------------------------- HashMap operations
EmptyTable == [k \in {} |-> {}]

HashMap_get(table, key) ==
    IF key \in DOMAIN table THEN Some(table[key]) ELSE None

HashMap_insert(table, key, entry) ==
    [x \in (DOMAIN table) \cup {key} |-> IF x = key THEN entry ELSE table[x]]

HashMap_remove(table, key) ==
    [x \in (DOMAIN table) \ {key} |-> table[x]]

\* A bug variant of the sweep: the closure's negation is missing.
HashMap_retain_expired(table, current_time) ==
    [x \in {y \in DOMAIN table : is_expired(table[y], current_time)} |-> table[x]]

\* HashMap::retain with the closure |_, e| !e.is_expired(current_time)
HashMap_retain_live(table, current_time) ==
    [x \in {y \in DOMAIN table : ~is_expired(table[y], current_time)} |-> table[x]]

\* Option::filter(|e| !e.is_expired(now))
filter_live(opt, now) == {e \in opt : ~is_expired(e, now)}

\* Option::map(|e| e.value)
map_value(opt) == {e.value : e \in opt}

\* ----------------------------------------------------------- MemoryCache
\* The struct as a record, for the methods below.
Self ==
    [cache_table |-> cache_table,
     full_scan_frequency |-> full_scan_frequency,
     created_time |-> created_time,
     last_scan_time |-> last_scan_time]

\* A bug variant of duration_since: an earlier that is later than t counts as
\* no time elapsed (as unwrap_or_default() in place of unwrap() would give).
duration_since_saturating(t, earlier) ==
    IF t >= earlier THEN Some(t - earlier) ELSE Some(0)

\* SystemTime::duration_since: Ok(t - earlier), or Err when earlier is later than t
duration_since(t, earlier) ==
    IF t >= earlier THEN Some(t - earlier) ELSE None

\* Option::unwrap_or
unwrap_or(opt, default) ==
    IF opt = None THEN default ELSE CHOOSE x \in opt : TRUE

\* A bug variant of the sweep: a cache without a scan frequency scans as if
\* its frequency were zero.
try_full_scan_always(self, current_time) ==
    LET full_scan_frequency_ == unwrap_or(self.full_scan_frequency, 0)
        since == duration_since(current_time,
                                unwrap_or(self.last_scan_time, self.created_time))
    IN  IF since = None
        THEN [panic |-> TRUE, swept |-> FALSE, self |-> self]
        ELSE IF unwrap_or(since, 0) >= full_scan_frequency_
        THEN [panic |-> FALSE, swept |-> TRUE,
              self |-> [self EXCEPT
                  !.cache_table = HashMap_retain_live(self.cache_table, current_time),
                  !.last_scan_time = Some(current_time)]]
        ELSE [panic |-> FALSE, swept |-> FALSE, self |-> self]

\* A bug variant of the sweep: the elapsed time is always measured from
\* created_time, so that after the first interval every call sweeps.
try_full_scan_since_created(self, current_time) ==
    IF self.full_scan_frequency = None
    THEN [panic |-> FALSE, swept |-> FALSE, self |-> self]
    ELSE
      LET full_scan_frequency_ == unwrap_or(self.full_scan_frequency, 0)
          since == duration_since(current_time, self.created_time)
      IN  IF since = None
          THEN [panic |-> TRUE, swept |-> FALSE, self |-> self]
          ELSE IF unwrap_or(since, 0) >= full_scan_frequency_
          THEN [panic |-> FALSE, swept |-> TRUE,
                self |-> [self EXCEPT
                    !.cache_table = HashMap_retain_live(self.cache_table, current_time),
                    !.last_scan_time = Some(current_time)]]
          ELSE [panic |-> FALSE, swept |-> FALSE, self |-> self]

\* A bug variant of the sweep: it is due only when more than the frequency has
\* elapsed.
try_full_scan_strict(self, current_time) ==
    IF self.full_scan_frequency = None
    THEN [panic |-> FALSE, swept |-> FALSE, self |-> self]
    ELSE
      LET full_scan_frequency_ == unwrap_or(self.full_scan_frequency, 0)
          since == duration_since(current_time,
                                  unwrap_or(self.last_scan_time, self.created_time))
      IN  IF since = None
          THEN [panic |-> TRUE, swept |-> FALSE, self |-> self]
          ELSE IF unwrap_or(since, 0) > full_scan_frequency_
          THEN [panic |-> FALSE, swept |-> TRUE,
                self |-> [self EXCEPT
                    !.cache_table = HashMap_retain_live(self.cache_table, current_time),
                    !.last_scan_time = Some(current_time)]]
          ELSE [panic |-> FALSE, swept |-> FALSE, self |-> self]

\* MemoryCache::try_full_scan_expired_items.  The result says whether the
\* unwrap() of duration_since panicked, whether the sweep ran, and the struct
\* afterwards.
try_full_scan_expired_items(self, current_time) ==
    IF self.full_scan_frequency = None
    THEN [panic |-> FALSE, swept |-> FALSE, self |-> self]
    ELSE
      LET full_scan_frequency_ == unwrap_or(self.full_scan_frequency, 0)
          since == duration_since(current_time,
                                  unwrap_or(self.last_scan_time, self.created_time))
      IN  IF since = None
          THEN [panic |-> TRUE, swept |-> FALSE, self |-> self]
          ELSE IF unwrap_or(since, 0) >= full_scan_frequency_
          THEN [panic |-> FALSE, swept |-> TRUE,
                self |-> [self EXCEPT
                    !.cache_table = HashMap_retain_live(self.cache_table, current_time),
                    !.last_scan_time = Some(current_time)]]
          ELSE [panic |-> FALSE, swept |-> FALSE, self |-> self]

\* A bug variant of contains_key: HashMap::contains_key, with no expiry filter.
contains_key_unfiltered(self, key, now) ==
    HashMap_get(self.cache_table, key) # None

\* MemoryCache::contains_key
contains_key(self, key, now) ==
    filter_live(HashMap_get(self.cache_table, key), now) # None

\* MemoryCache::get
get(self, key, now) ==
    map_value(filter_live(HashMap_get(self.cache_table, key), now))

\* A bug variant of insert: the previous entry is returned without the expiry filter.
insert_unfiltered(self, key, value, lifetime, now, entry_now) ==
    LET scan == try_full_scan_expired_items(self, now)
        old == HashMap_get(scan.self.cache_table, key)
    IN  IF scan.panic
        THEN [panic |-> TRUE, swept |-> FALSE, calls |-> 0, ret |-> None, self |-> self]
        ELSE [panic |-> FALSE, swept |-> scan.swept, calls |-> 0,
              ret |-> map_value(old),
              self |-> [scan.self EXCEPT !.cache_table =
                  HashMap_insert(scan.self.cache_table, key,
                                 CacheEntry_new(value, lifetime, entry_now))]]

\* MemoryCache::insert; entry_now is the clock reading of CacheEntry::new.
insert(self, key, value, lifetime, now, entry_now) ==
    LET scan == try_full_scan_expired_items(self, now)
        old == HashMap_get(scan.self.cache_table, key)
    IN  IF scan.panic
        THEN [panic |-> TRUE, swept |-> FALSE, calls |-> 0, ret |-> None, self |-> self]
        ELSE [panic |-> FALSE, swept |-> scan.swept, calls |-> 0,
              ret |-> map_value(filter_live(old, now)),
              self |-> [scan.self EXCEPT !.cache_table =
                  HashMap_insert(scan.self.cache_table, key,
                                 CacheEntry_new(value, lifetime, entry_now))]]

\* A bug variant of remove: an expired entry is left in the table.
remove_live_only(self, key, now) ==
    LET scan == try_full_scan_expired_items(self, now)
        old == HashMap_get(scan.self.cache_table, key)
    IN  IF scan.panic
        THEN [panic |-> TRUE, swept |-> FALSE, calls |-> 0, ret |-> None, self |-> self]
        ELSE [panic |-> FALSE, swept |-> scan.swept, calls |-> 0,
              ret |-> map_value(filter_live(old, now)),
              self |-> IF filter_live(old, now) = None THEN scan.self
                       ELSE [scan.self EXCEPT !.cache_table =
                                HashMap_remove(scan.self.cache_table, key)]]

\* MemoryCache::remove
remove(self, key, now) ==
    LET scan == try_full_scan_expired_items(self, now)
        old == HashMap_get(scan.self.cache_table, key)
    IN  IF scan.panic
        THEN [panic |-> TRUE, swept |-> FALSE, calls |-> 0, ret |-> None, self |-> self]
        ELSE [panic |-> FALSE, swept |-> scan.swept, calls |-> 0,
              ret |-> map_value(filter_live(old, now)),
              self |-> [scan.self EXCEPT !.cache_table =
                  HashMap_remove(scan.self.cache_table, key)]]

\* A bug variant of get_or_insert: a live occupant keeps its value but has its
\* expiration renewed from the supplied lifetime.
get_or_insert_refresh(self, key, factory, lifetime, now, entry_now) ==
    LET scan == try_full_scan_expired_items(self, now)
        table == scan.self.cache_table
        fresh == [scan.self EXCEPT !.cache_table =
                     HashMap_insert(table, key,
                                    CacheEntry_new(factory, lifetime, entry_now))]
    IN  IF scan.panic
        THEN [panic |-> TRUE, swept |-> FALSE, calls |-> 0, ret |-> None, self |-> self]
        ELSE IF key \in DOMAIN table
        THEN IF is_expired(table[key], now)
             THEN [panic |-> FALSE, swept |-> scan.swept, calls |-> 1,
                   ret |-> fresh.cache_table[key].value, self |-> fresh]
             ELSE [panic |-> FALSE, swept |-> scan.swept, calls |-> 0,
                   ret |-> table[key].value,
                   self |-> [scan.self EXCEPT !.cache_table =
                       HashMap_insert(table, key,
                           CacheEntry_new(table[key].value, lifetime, entry_now))]]
        ELSE [panic |-> FALSE, swept |-> scan.swept, calls |-> 1,
              ret |-> fresh.cache_table[key].value, self |-> fresh]

\* A bug variant of get_or_insert: an occupied slot is returned as it is, expired
\* or not (HashMap's entry(key).or_insert_with(..)).
get_or_insert_occupied(self, key, factory, lifetime, now, entry_now) ==
    LET scan == try_full_scan_expired_items(self, now)
        table == scan.self.cache_table
        fresh == [scan.self EXCEPT !.cache_table =
                     HashMap_insert(table, key,
                                    CacheEntry_new(factory, lifetime, entry_now))]
    IN  IF scan.panic
        THEN [panic |-> TRUE, swept |-> FALSE, calls |-> 0, ret |-> None, self |-> self]
        ELSE IF key \in DOMAIN table
        THEN [panic |-> FALSE, swept |-> scan.swept, calls |-> 0,
              ret |-> table[key].value, self |-> scan.self]
        ELSE [panic |-> FALSE, swept |-> scan.swept, calls |-> 1,
              ret |-> fresh.cache_table[key].value, self |-> fresh]

\* MemoryCache::get_or_insert; factory is the value factory() returns, calls
\* counts its invocations, ret is the value the returned reference points to.
get_or_insert(self, key, factory, lifetime, now, entry_now) ==
    LET scan == try_full_scan_expired_items(self, now)
        table == scan.self.cache_table
        fresh == [scan.self EXCEPT !.cache_table =
                     HashMap_insert(table, key,
                                    CacheEntry_new(factory, lifetime, entry_now))]
    IN  IF scan.panic
        THEN [panic |-> TRUE, swept |-> FALSE, calls |-> 0, ret |-> None, self |-> self]
        ELSE IF key \in DOMAIN table
        THEN \* Entry::Occupied
             IF is_expired(table[key], now)
             THEN [panic |-> FALSE, swept |-> scan.swept, calls |-> 1,
                   ret |-> fresh.cache_table[key].value, self |-> fresh]
             ELSE [panic |-> FALSE, swept |-> scan.swept, calls |-> 0,
                   ret |-> table[key].value, self |-> scan.self]
        ELSE \* Entry::Vacant
             [panic |-> FALSE, swept |-> scan.swept, calls |-> 1,
              ret |-> fresh.cache_table[key].value, self |-> fresh]

\* ------------------------------------------------------------ the machine
\* No thread uses the cache through cached!
NoThreads ==
    /\ mutex = None
    /\ stack = [t \in Threads |-> <<>>]
    /\ started = [t \in Threads |-> 0]
    /\ inserted = EmptyTable

\* MemoryCache::new and MemoryCache::with_full_scan, at clock reading 1
Init ==
    /\ clock = 1
    /\ cache_table = EmptyTable
    /\ full_scan_frequency \in {None} \cup Frequencies
    /\ created_time = clock
    /\ last_scan_time = None
    /\ written = EmptyTable
    /\ presweep = {}
    /\ last = Call(IF full_scan_frequency = None THEN "new" ELSE "with_full_scan",
                   None, None, None, Some(clock), None, None, 0, FALSE)
    /\ panicked = None
    /\ NoThreads

\* A mutating method took the struct to r.self, or panicked.  wrote says whether
\* the call constructed an entry (and so read the clock a second time).
Mutate(op, key, value, lifetime, entry_time, r, wrote, history) ==
    IF r.panic
    THEN /\ panicked' = Some([op |-> op, key |-> key, now |-> clock])
         /\ last' = Idle
         /\ UNCHANGED <<cache_table, full_scan_frequency, created_time,
                        last_scan_time, clock, written, presweep>>
         /\ UNCHANGED cached
    ELSE /\ cache_table' = r.self.cache_table
         /\ last_scan_time' = r.self.last_scan_time
         /\ full_scan_frequency' = r.self.full_scan_frequency
         /\ created_time' = r.self.created_time
         /\ clock' = IF wrote THEN entry_time ELSE clock
         /\ written' = IF history
                        THEN [x \in DOMAIN r.self.cache_table |->
                                  IF wrote /\ x = key THEN lifetime ELSE written[x]]
                        ELSE EmptyTable
         /\ presweep' = IF ~history THEN {}
                         ELSE IF r.swept
                         THEN DOMAIN r.self.cache_table \ (IF wrote THEN {key} ELSE {})
                         ELSE (presweep \cap DOMAIN r.self.cache_table)
                                  \ (IF wrote THEN {key} ELSE {})
         /\ last' = [Call(op, Some(key), value, lifetime, Some(clock),
                          IF wrote THEN Some(entry_time) ELSE None,
                          r.ret, r.calls, r.swept)
                     EXCEPT !.purged =
                         IF history /\ r.swept
                         THEN (DOMAIN cache_table \ DOMAIN r.self.cache_table) \ {key}
                         ELSE {},
                            !.replaced =
                         IF history /\ r.swept THEN last_scan_time ELSE None]
         /\ UNCHANGED panicked
         /\ UNCHANGED cached

Insert(key, value, lifetime, drift, history) ==
    /\ panicked = None
    /\ clock + drift \in 0..MaxTime
    /\ Mutate("insert", key, Some(value), lifetime, clock + drift,
              insert(Self, key, value, lifetime, clock, clock + drift), TRUE, history)

Remove(key, history) ==
    /\ panicked = None
    /\ Mutate("remove", key, None, None, clock, remove(Self, key, clock), FALSE,
              history)

GetOrInsert(key, factory, lifetime, drift, history) ==
    /\ panicked = None
    /\ clock + drift \in 0..MaxTime
    /\ LET r == get_or_insert(Self, key, factory, lifetime, clock, clock + drift)
       IN  /\ (r.calls = 0 => drift = 0)
           /\ Mutate("get_or_insert", key, Some(factory), lifetime, clock + drift,
                     r, r.calls > 0, history)

Read(op, key, ret) ==
    /\ panicked = None
    /\ last' = Call(op, key, None, None, Some(clock), None, ret, 0, FALSE)
    /\ UNCHANGED <<cache_table, full_scan_frequency, created_time, last_scan_time,
                   clock, written, presweep, panicked>>
    /\ UNCHANGED cached

\* A bug variant of the contains_key call: it runs the throttled sweep first.
ContainsKey_sweeps(key) ==
    LET scan == try_full_scan_expired_items(Self, clock)
    IN  /\ panicked = None
        /\ ~scan.panic
        /\ cache_table' = scan.self.cache_table
        /\ last_scan_time' = scan.self.last_scan_time
        /\ last' = Call("contains_key", Some(key), None, None, Some(clock), None,
                        contains_key(scan.self, key, clock), 0, FALSE)
        /\ UNCHANGED <<full_scan_frequency, created_time, clock, written, presweep,
                       panicked>>
        /\ UNCHANGED cached

ContainsKey(key) == Read("contains_key", Some(key), contains_key(Self, key, clock))

Get(key) == Read("get", Some(key), get(Self, key, clock))

\* MemoryCache::get_last_scan_time
GetLastScanTime == Read("get_last_scan_time", None, last_scan_time)

\* MemoryCache::get_full_scan_frequency
GetFullScanFrequency == Read("get_full_scan_frequency", None, full_scan_frequency)

\* The host clock advances.
Tick ==
    /\ panicked = None
    /\ clock < MaxTime
    /\ clock' = clock + 1
    /\ last' = Idle
    /\ UNCHANGED <<cache_table, full_scan_frequency, created_time, last_scan_time,
                   written, presweep, panicked>>
    /\ UNCHANGED cached

\* The host clock is set back (SystemTime is not monotonic).
ClockBack ==
    /\ panicked = None
    /\ clock > 0
    /\ clock' = clock - 1
    /\ last' = Idle
    /\ UNCHANGED <<cache_table, full_scan_frequency, created_time, last_scan_time,
                   written, presweep, panicked>>
    /\ UNCHANGED cached

\* How far the clock moves between a call's two readings of it.
Forward == {0, 1}
AnyDrift == {-1, 0, 1}

Ops(Drifts, history) ==
    \/ \E k \in Keys, v \in Values, l \in Lifetimes, d \in Drifts :
          Insert(k, v, l, d, history)
    \/ \E k \in Keys : Remove(k, history)
    \/ \E k \in Keys, v \in Values, l \in Lifetimes, d \in Drifts :
          GetOrInsert(k, v, l, d, history)
    \/ \E k \in Keys : ContainsKey(k)
    \/ \E k \in Keys : Get(k)
    \/ GetLastScanTime
    \/ GetFullScanFrequency

Next == Ops(AnyDrift, FALSE) \/ Tick \/ ClockBack

Spec == Init /\ [][Next]_vars

\* The same program on a host whose clock never goes backwards, with the
\* history of lifetimes kept.
NextMono == Ops(Forward, TRUE) \/ Tick

SpecMono == Init /\ [][NextMono]_vars

\* Some mutating method is called.  One value is enough where only the
\* presence of entries matters, and the clock moves between the calls (Tick)
\* rather than between a call's two readings.
MutatingCall ==
    \/ \E k \in Keys, l \in Lifetimes : Insert(k, 1, l, 0, TRUE)
    \/ \E k \in Keys : Remove(k, TRUE)
    \/ \E k \in Keys, l \in Lifetimes : GetOrInsert(k, 1, l, 0, TRUE)

\* The mutating calls and the forward clock.
NextLive == MutatingCall \/ Tick

\* Which call has just returned, and the clock: a call other than a repetition
\* of the last one changes it.
called == <<last.op, last.key, clock>>

\* The forward-only clock keeps advancing (up to MaxTime) and mutating methods
\* keep being called: there is no timer thread, the sweep runs only inside a
\* caller's mutating call (lib.rs:187, 223, 250).
SpecLive ==
    Init /\ [][NextLive]_vars /\ WF_clock(Tick) /\ WF_called(MutatingCall)

\* MemoryCache::with_full_scan at clock reading 0: the whole range of the clock
\* lies after the construction, so that two sweeps a frequency apart fit in it.
InitAtZero ==
    /\ clock = 0
    /\ cache_table = EmptyTable
    /\ full_scan_frequency \in Frequencies
    /\ created_time = clock
    /\ last_scan_time = None
    /\ written = EmptyTable
    /\ presweep = {}
    /\ last = Call("with_full_scan", None, None, None, Some(clock), None, None, 0,
                   FALSE)
    /\ panicked = None
    /\ NoThreads

\* Every clock movement, with the history kept.
NextAtZero == Ops(AnyDrift, TRUE) \/ Tick \/ ClockBack

SpecAtZero == InitAtZero /\ [][NextAtZero]_vars

\* ----------------------------------------------------------------- cached!
\* A call of the function that cached! defines.  pc is the statement the call
\* is at: "lock" (CACHE.lock(), line 34), "match" (cache.get(&key), line 36),
\* "hit" (value.clone() of the Some arm, line 37), "drop" (drop(cache), line
\* 41), "body" (the body expression starts, line 44), "wait" (the body is in
\* its recursive call), "eval" (the body continues after that call), "relock"
\* (CACHE.lock(), line 47), "insert" (cache.insert, line 48), "miss"
\* (value.clone() of the None arm, line 49).  guard: the call owns a
\* MutexGuard.  late (history): when the call started, some call had already
\* inserted a result for its arguments.
Frame(arg) ==
    [arg |-> arg, pc |-> "lock", value |-> None, guard |-> FALSE,
     late |-> arg \in DOMAIN inserted]

\* The innermost call of thread t, and the stack with that call changed.
Top(t) == stack[t][Len(stack[t])]

SetTop(t, frame) == [stack EXCEPT ![t] = [@ EXCEPT ![Len(@)] = frame]]

\* The cache behind the Mutex is left as it is.
CacheUntouched ==
    UNCHANGED <<cache_table, full_scan_frequency, created_time, last_scan_time,
                clock, written, presweep, last, panicked, inserted>>

\* The static CACHE: Lazy::new(|| Mutex::new(MemoryCache::new()))
InitCached ==
    /\ clock = 1
    /\ cache_table = EmptyTable
    /\ full_scan_frequency = None
    /\ created_time = clock
    /\ last_scan_time = None
    /\ written = EmptyTable
    /\ presweep = {}
    /\ last = Idle
    /\ panicked = None
    /\ NoThreads

\* Thread t calls the function with argument x from outside.
Start(t, x) ==
    /\ stack[t] = <<>>
    /\ started[t] < MaxCalls
    /\ stack' = [stack EXCEPT ![t] = <<Frame(x)>>]
    /\ started' = [started EXCEPT ![t] = @ + 1]
    /\ UNCHANGED mutex
    /\ CacheUntouched

\* let cache = CACHE.lock().unwrap(): blocks while the Mutex is held, by
\* another thread or by this one.
Lock(t) ==
    /\ stack[t] # <<>>
    /\ Top(t).pc = "lock"
    /\ mutex = None
    /\ mutex' = Some(t)
    /\ stack' = SetTop(t, [Top(t) EXCEPT !.pc = "match", !.guard = TRUE])
    /\ UNCHANGED started
    /\ CacheUntouched

\* match cache.get(&key)
Match(t) ==
    /\ stack[t] # <<>>
    /\ Top(t).pc = "match"
    /\ LET found == get(Self, Top(t).arg, clock)
       IN  stack' = SetTop(t, IF found = None
                              THEN [Top(t) EXCEPT !.pc = "drop"]
                              ELSE [Top(t) EXCEPT !.pc = "hit", !.value = found])
    /\ UNCHANGED <<mutex, started>>
    /\ CacheUntouched

\* A bug variant of the None arm: the guard is not dropped before the body.
DropGuard_forgotten(t) ==
    /\ stack[t] # <<>>
    /\ Top(t).pc = "drop"
    /\ stack' = SetTop(t, [Top(t) EXCEPT !.pc = "body"])
    /\ UNCHANGED <<mutex, started>>
    /\ CacheUntouched

\* drop(cache)
DropGuard(t) ==
    /\ stack[t] # <<>>
    /\ Top(t).pc = "drop"
    /\ mutex' = None
    /\ stack' = SetTop(t, [Top(t) EXCEPT !.pc = "body", !.guard = FALSE])
    /\ UNCHANGED started
    /\ CacheUntouched

\* The body, at an argument above 0, calls the function at the argument below
\* (x * factorial(x - 1) in the documented example).
Recurse(t) ==
    /\ stack[t] # <<>>
    /\ Top(t).pc = "body"
    /\ Top(t).arg > 0
    /\ stack' = [stack EXCEPT ![t] =
                     Append(SetTop(t, [Top(t) EXCEPT !.pc = "wait"])[t],
                            Frame(Top(t).arg - 1))]
    /\ UNCHANGED <<mutex, started>>
    /\ CacheUntouched

\* let value = (||$body)(): the body, at argument 0 or after its recursive
\* call, yields a value; v is whatever the caller-supplied expression gives.
Evaluate(t, v) ==
    /\ stack[t] # <<>>
    /\ \/ Top(t).pc = "eval"
       \/ Top(t).pc = "body" /\ Top(t).arg = 0
    /\ stack' = SetTop(t, [Top(t) EXCEPT !.pc = "relock", !.value = Some(v)])
    /\ UNCHANGED <<mutex, started>>
    /\ CacheUntouched

\* let mut cache = CACHE.lock().unwrap()
Relock(t) ==
    /\ stack[t] # <<>>
    /\ Top(t).pc = "relock"
    /\ mutex = None
    /\ mutex' = Some(t)
    /\ stack' = SetTop(t, [Top(t) EXCEPT !.pc = "insert", !.guard = TRUE])
    /\ UNCHANGED started
    /\ CacheUntouched

\* A bug variant of the insert: the result is stored with a zero lifetime.
CachedInsert_expiring(t) ==
    /\ stack[t] # <<>>
    /\ Top(t).pc = "insert"
    /\ LET r == insert(Self, Top(t).arg, The(Top(t).value), Some(0), clock, clock)
       IN  /\ ~r.panic
           /\ cache_table' = r.self.cache_table
           /\ last_scan_time' = r.self.last_scan_time
    /\ inserted' = HashMap_insert(inserted, Top(t).arg, The(Top(t).value))
    /\ stack' = SetTop(t, [Top(t) EXCEPT !.pc = "miss"])
    /\ UNCHANGED <<full_scan_frequency, created_time, clock, written, presweep,
                   last, panicked, mutex, started>>

\* cache.insert(key, value, None)
CachedInsert(t) ==
    /\ stack[t] # <<>>
    /\ Top(t).pc = "insert"
    /\ LET r == insert(Self, Top(t).arg, The(Top(t).value), None, clock, clock)
       IN  /\ ~r.panic
           /\ cache_table' = r.self.cache_table
           /\ last_scan_time' = r.self.last_scan_time
    /\ inserted' = HashMap_insert(inserted, Top(t).arg, The(Top(t).value))
    /\ stack' = SetTop(t, [Top(t) EXCEPT !.pc = "miss"])
    /\ UNCHANGED <<full_scan_frequency, created_time, clock, written, presweep,
                   last, panicked, mutex, started>>

\* value.clone() and the end of the function: the guard the call still owns
\* is dropped, and the body of the calling frame, if any, continues.
Return(t) ==
    /\ stack[t] # <<>>
    /\ Top(t).pc \in {"hit", "miss"}
    /\ mutex' = IF Top(t).guard THEN None ELSE mutex
    /\ stack' = [stack EXCEPT ![t] =
                     IF Len(@) = 1 THEN <<>>
                     ELSE [i \in 1..(Len(@) - 1) |->
                              IF i = Len(@) - 1 THEN [@[i] EXCEPT !.pc = "eval"]
                              ELSE @[i]]]
    /\ UNCHANGED started
    /\ CacheUntouched

\* One step of a call of thread t that is under way.
ThreadStep(t) ==
    \/ Lock(t)
    \/ Match(t)
    \/ DropGuard(t)
    \/ Recurse(t)
    \/ \E v \in Values : Evaluate(t, v)
    \/ Relock(t)
    \/ CachedInsert(t)
    \/ Return(t)

NextCached ==
    \/ \E t \in Threads, x \in Args : Start(t, x)
    \/ \E t \in Threads : ThreadStep(t)
    \/ Tick
    \/ ClockBack

\* Each thread that has a call under way is scheduled again and again.
SpecCached ==
    InitCached /\ [][NextCached]_vars /\ \A t \in Threads : WF_cached(ThreadStep(t))

\* ------------------------------------------------------------ vocabulary
ReadOps == {"contains_key", "get", "get_last_scan_time", "get_full_scan_frequency"}
MutatingOps == {"insert", "remove", "get_or_insert"}

\* The table holds an entry for key whose expiration is absent or strictly
\* later than t.
LiveAt(table, key, t) ==
    /\ key \in DOMAIN table
    /\ \A e \in table[key].expiration : e > t

\* The entry a call constructs: its value, and the clock reading at its
\* construction plus the lifetime, or no expiration.
Constructed(call) ==
    [value |-> The(call.value),
     expiration |-> IF call.lifetime = None THEN None
                    ELSE Some(The(call.entry_time) + The(call.lifetime))]

\* ------------------------------------------------------------------- C1
\* C1: contains_key(k) returns true exactly when the table holds an entry for k
\* whose expiration is absent or strictly later than the call's clock reading;
\* get(k) returns that entry's value in the same cases and None otherwise.
C1_ReadsReportLiveEntries ==
    \A k \in Keys :
        /\ (last.op = "contains_key" /\ last.key = Some(k)) =>
              (last.ret <=> LiveAt(cache_table, k, The(last.now)))
        /\ (last.op = "get" /\ last.key = Some(k)) =>
              last.ret = IF LiveAt(cache_table, k, The(last.now))
                         THEN Some(cache_table[k].value) ELSE None

\* A contains_key on an entry whose expiration is exactly the call's clock
\* reading has answered false.
C1_Witness ==
    \E k \in Keys :
        /\ last.op = "contains_key" /\ last.key = Some(k)
        /\ k \in DOMAIN cache_table
        /\ cache_table[k].expiration = last.now
        /\ last.ret = FALSE

\* ------------------------------------------------------------------- C2
\* C2: an insert(k, v, ttl) that returns leaves the table mapping k to a new
\* entry holding v, with expiration = the clock at the entry's construction +
\* ttl (none when ttl is None), whatever k held before; it returns the previous
\* value exactly when k had an entry not expired at the insert's clock reading,
\* and None when k was missing or its entry had expired.
C2_InsertStep ==
    \A k \in Keys :
        (last'.op = "insert" /\ last'.key = Some(k)) =>
            /\ last'.now = Some(clock)
            /\ last'.entry_time = Some(clock')
            /\ k \in DOMAIN cache_table'
            /\ cache_table'[k] = Constructed(last')
            /\ last'.ret = IF LiveAt(cache_table, k, clock)
                           THEN Some(cache_table[k].value) ELSE None

C2_Insert == [][C2_InsertStep]_vars

\* An insert has replaced a live entry by one with another value and a finite
\* lifetime, and returned the old value.
C2_Witness ==
    \E k \in Keys :
        /\ last.op = "insert" /\ last.key = Some(k)
        /\ last.ret # None /\ last.ret # last.value
        /\ last.lifetime = Some(1)
        /\ cache_table[k].value = The(last.value)

\* ------------------------------------------------------------------- C3
\* C3: a remove(k) that returns leaves the table without an entry for k, so
\* that contains_key(k) is false and get(k) is None at any reading afterwards;
\* it returns the removed value exactly when the entry was present and not
\* expired at the remove's clock reading, else None.
C3_RemoveStep ==
    \A k \in Keys :
        (last'.op = "remove" /\ last'.key = Some(k)) =>
            /\ last'.now = Some(clock)
            /\ k \notin DOMAIN cache_table'
            /\ \A t \in 0..MaxTime :
                  /\ ~contains_key(Self, k, t)'
                  /\ get(Self, k, t)' = None
            /\ last'.ret = IF LiveAt(cache_table, k, clock)
                           THEN Some(cache_table[k].value) ELSE None

C3_Remove == [][C3_RemoveStep]_vars

\* A remove has returned a value while the other key stays in the table.
C3_Witness ==
    \E k \in Keys :
        /\ last.op = "remove" /\ last.key = Some(k)
        /\ last.ret # None
        /\ DOMAIN cache_table = Keys \ {k}

\* ------------------------------------------------------------------- C4
\* C4: a get_or_insert(k, factory, ttl) that returns has invoked factory exactly
\* once when k was missing or its entry was expired at the call's clock reading,
\* installed a fresh entry with the factory's value and ttl and returned that
\* value; when k had a live entry it invoked factory zero times and returned
\* the existing value.
C4_GetOrInsertStep ==
    \A k \in Keys :
        (last'.op = "get_or_insert" /\ last'.key = Some(k)) =>
            /\ last'.now = Some(clock)
            /\ IF LiveAt(cache_table, k, clock)
               THEN /\ last'.calls = 0
                    /\ last'.ret = cache_table[k].value
               ELSE /\ last'.calls = 1
                    /\ last'.entry_time = Some(clock')
                    /\ k \in DOMAIN cache_table'
                    /\ cache_table'[k] = Constructed(last')
                    /\ last'.ret = The(last'.value)

C4_GetOrInsert == [][C4_GetOrInsertStep]_vars

\* A get_or_insert has found a live entry and returned its value, which is not
\* the one the factory would have produced.
C4_Witness ==
    \E k \in Keys :
        /\ last.op = "get_or_insert" /\ last.key = Some(k)
        /\ last.calls = 0
        /\ last.ret # The(last.value)
        /\ cache_table[k].expiration # None

\* ------------------------------------------------------------------- C5
\* C5: in a cache with a scan frequency, a mutating call that reads a clock
\* value earlier than last_scan_time (created_time when no sweep has run) does
\* not panic.
C5_NoPanicOnBackwardClock ==
    \A p \in panicked :
        ~ /\ p.op \in MutatingOps
          /\ full_scan_frequency # None
          /\ p.now < unwrap_or(last_scan_time, created_time)

\* ------------------------------------------------------------------- C6
\* C6: on a clock that never goes backwards, a key whose entry was written with
\* ttl = 0 (by insert or by get_or_insert) is reported absent by every later
\* contains_key and get on it, also with no clock advance at all.
C6_ZeroTtlAbsent ==
    \A k \in DOMAIN cache_table :
        written[k] = Some(0) =>
            /\ (last.op = "contains_key" /\ last.key = Some(k)) => last.ret = FALSE
            /\ (last.op = "get" /\ last.key = Some(k)) => last.ret = None
            /\ \A t \in clock..MaxTime :
                  /\ ~contains_key(Self, k, t)
                  /\ get(Self, k, t) = None

\* A get has just answered on a key whose entry was written with ttl = 0, at
\* the very clock reading of the entry's construction.
C6_Witness ==
    \E k \in DOMAIN cache_table :
        /\ written[k] = Some(0)
        /\ last.op = "get" /\ last.key = Some(k)
        /\ cache_table[k].expiration = last.now

\* ------------------------------------------------------------------- C7
\* C7: a write with ttl = None builds an entry without expiration; such an
\* entry is reported present with its value by contains_key and get at every
\* clock reading, and stays in the table unchanged through every step (any
\* sweep included) but an insert or remove on its key.
C7_NoExpirationStep ==
    /\ \A k \in Keys :
          ( /\ last'.op \in {"insert", "get_or_insert"}
            /\ last'.key = Some(k)
            /\ last'.entry_time # None
            /\ last'.lifetime = None ) =>
              (k \in DOMAIN cache_table' /\ cache_table'[k].expiration = None)
    /\ \A k \in DOMAIN cache_table' :
          cache_table'[k].expiration = None =>
              /\ \A t \in 0..MaxTime :
                    /\ contains_key(Self, k, t)'
                    /\ get(Self, k, t)' = Some(cache_table'[k].value)
              /\ (last'.op = "contains_key" /\ last'.key = Some(k)) =>
                    last'.ret = TRUE
              /\ (last'.op = "get" /\ last'.key = Some(k)) =>
                    last'.ret = Some(cache_table'[k].value)
    /\ \A k \in DOMAIN cache_table :
          ( /\ cache_table[k].expiration = None
            /\ ~(last'.op \in {"insert", "remove"} /\ last'.key = Some(k)) ) =>
              (k \in DOMAIN cache_table' /\ cache_table'[k] = cache_table[k])

C7_NoneNeverExpires == [][C7_NoExpirationStep]_vars

\* An entry without expiration is in the table after a remove on the other key
\* has run a sweep, at the latest clock reading.
C7_Witness ==
    \E k \in DOMAIN cache_table :
        /\ cache_table[k].expiration = None
        /\ last.op = "remove" /\ last.key # Some(k)
        /\ last.swept
        /\ clock = MaxTime

\* ------------------------------------------------------------------- C8
\* C8: right after an insert(k, v, ttl) has returned, whatever k held before
\* and whether or not the insert swept, a get(k) at a clock reading t returns v
\* and contains_key(k) is true when ttl is None or ttl is larger than the time
\* elapsed since the insert returned.
C8_InsertThenGet ==
    \A k \in Keys :
        (last.op = "insert" /\ last.key = Some(k)) =>
            \A t \in 0..MaxTime :
                (last.lifetime = None \/ t - clock < The(last.lifetime)) =>
                    /\ get(Self, k, t) = last.value
                    /\ contains_key(Self, k, t)

\* An insert with ttl = 1 has swept and returned no previous value, and a get
\* with no clock advance returns the new value.
C8_Witness ==
    \E k \in Keys :
        /\ last.op = "insert" /\ last.key = Some(k)
        /\ last.lifetime = Some(1)
        /\ last.swept
        /\ last.ret = None
        /\ get(Self, k, clock) = last.value

\* ------------------------------------------------------------------- C9
\* C9: contains_key, get, get_last_scan_time and get_full_scan_frequency leave
\* the table, last_scan_time, full_scan_frequency and created_time unchanged
\* and run no sweep; a step that changes the table or last_scan_time, or runs a
\* sweep, is an insert, a remove or a get_or_insert.
C9_ReadStep ==
    /\ last'.op \in ReadOps =>
          /\ UNCHANGED <<cache_table, last_scan_time, full_scan_frequency,
                         created_time>>
          /\ ~last'.swept
    /\ ( \/ cache_table' # cache_table
         \/ last_scan_time' # last_scan_time
         \/ last'.swept ) => last'.op \in MutatingOps
    /\ UNCHANGED <<full_scan_frequency, created_time>>

C9_ReadsChangeNothing == [][C9_ReadStep]_vars

\* A contains_key has answered false on an expired entry that is still in the
\* table, in a cache whose sweep is due on every call.
C9_Witness ==
    \E k \in DOMAIN cache_table :
        /\ last.op = "contains_key" /\ last.key = Some(k)
        /\ last.ret = FALSE
        /\ full_scan_frequency = Some(0)
        /\ last_scan_time # None
        /\ The(last_scan_time) < clock

\* ------------------------------------------------------------------ C10
\* C10: in a cache without a scan frequency no sweep ever runs:
\* get_last_scan_time() and get_full_scan_frequency() are None in every state,
\* and an entry (expired or not) stays in the table unchanged through every
\* step but a mutating call on its own key.
C10_DefaultState ==
    full_scan_frequency = None =>
        /\ last_scan_time = None
        /\ ~last.swept
        /\ last.op = "get_last_scan_time" => last.ret = None
        /\ last.op = "get_full_scan_frequency" => last.ret = None

C10_DefaultStep ==
    full_scan_frequency = None =>
        \A k \in DOMAIN cache_table :
            ~(last'.op \in MutatingOps /\ last'.key = Some(k)) =>
                (k \in DOMAIN cache_table' /\ cache_table'[k] = cache_table[k])

C10_NoSweepByDefault == []C10_DefaultState /\ [][C10_DefaultStep]_vars

\* In a cache without a scan frequency an expired entry is still in the table
\* after a mutating call on the other key.
C10_Witness ==
    \E k \in DOMAIN cache_table :
        /\ full_scan_frequency = None
        /\ ~LiveAt(cache_table, k, clock)
        /\ last.op \in MutatingOps /\ last.key # Some(k)
        /\ last.op = "get_last_scan_time" \/ clock = MaxTime

\* ------------------------------------------------------------------ C11
\* The table holds N >= 1 entries, each written with ttl = 0, in a cache with
\* scan frequency 0.
C11_AllZeroTtl ==
    /\ full_scan_frequency = Some(0)
    /\ DOMAIN cache_table # {}
    /\ \A k \in DOMAIN cache_table : written[k] = Some(0)

\* C11 as stated: from such a state one further mutating call of any kind
\* leaves the table with 0 entries, all N keys reported absent and
\* get_last_scan_time() present.
C11_OriginalStep ==
    (C11_AllZeroTtl /\ last'.op \in MutatingOps) =>
        /\ DOMAIN cache_table' = {}
        /\ \A k \in DOMAIN cache_table :
              ~contains_key(Self, k, clock)' /\ get(Self, k, clock)' = None
        /\ last_scan_time' # None

C11_Original == [][C11_OriginalStep]_vars

\* C11 as amended: on a clock that never goes backwards, the further call's
\* sweep purges all N entries and sets last_scan_time to the call's reading;
\* afterwards the table is empty after a remove and holds exactly the entry
\* the call has written after an insert or get_or_insert, and every one of
\* the N keys other than the call's own is reported absent.
C11_AmendedStep ==
    (C11_AllZeroTtl /\ last'.op \in MutatingOps) =>
        /\ last'.swept
        /\ last_scan_time' = Some(clock)
        /\ last'.op = "remove" => DOMAIN cache_table' = {}
        /\ last'.op \in {"insert", "get_or_insert"} =>
              /\ last'.entry_time # None
              /\ DOMAIN cache_table' = last'.key
              /\ cache_table'[The(last'.key)] = Constructed(last')
        /\ \A k \in DOMAIN cache_table \ last'.key :
              \A t \in clock'..MaxTime :
                  ~contains_key(Self, k, t)' /\ get(Self, k, t)' = None

C11_SweepPurgesZeroTtl == [][C11_AmendedStep]_vars

\* In a cache with scan frequency 0 an insert has swept the other key's entry
\* out and the table holds the inserted entry alone.
C11_Witness ==
    /\ full_scan_frequency = Some(0)
    /\ last.op = "insert"
    /\ last.purged # {}
    /\ DOMAIN cache_table = last.key
    /\ last.lifetime = Some(0)

\* ------------------------------------------------------------------ C13
\* The reference point of the throttle: last_scan_time, or created_time when
\* no sweep has run.
Reference ==
    IF last_scan_time = None THEN created_time ELSE The(last_scan_time)

\* A sweep is due at the reading now.
Due(now) ==
    /\ full_scan_frequency # None
    /\ now - Reference >= The(full_scan_frequency)

\* C13: a mutating call that returns, with clock reading now, has swept exactly
\* when a frequency f is configured and now - r >= f; the sweep has removed
\* every entry expired at now, kept every other entry and set last_scan_time
\* to now, before the call's own write (an entry the call writes is in the
\* table afterwards even when it is expired at now); when the sweep is not due
\* the other keys' entries and last_scan_time are unchanged.
C13_SweepStep ==
    \A k \in Keys :
        (last'.op \in MutatingOps /\ last'.key = Some(k)) =>
            /\ last'.now = Some(clock)
            /\ last'.swept <=> Due(clock)
            /\ last_scan_time' = IF Due(clock) THEN Some(clock) ELSE last_scan_time
            /\ \A x \in Keys \ {k} :
                  IF x \in DOMAIN cache_table
                     /\ (Due(clock) => LiveAt(cache_table, x, clock))
                  THEN x \in DOMAIN cache_table' /\ cache_table'[x] = cache_table[x]
                  ELSE x \notin DOMAIN cache_table'
            /\ last'.entry_time # None =>
                  (k \in DOMAIN cache_table' /\ cache_table'[k] = Constructed(last'))

C13_ThrottledSweep == [][C13_SweepStep]_vars

\* A get_or_insert in a cache with frequency 1 has swept, has written an entry
\* that is expired at its own reading, and the other key's entry with a finite
\* expiration has been kept.
C13_Witness ==
    \E k \in Keys, x \in DOMAIN cache_table :
        /\ full_scan_frequency = Some(1)
        /\ last.op = "get_or_insert" /\ last.key = Some(k)
        /\ last.swept
        /\ last_scan_time = last.now
        /\ k \in DOMAIN cache_table
        /\ ~LiveAt(cache_table, k, The(last.now))
        /\ x # k
        /\ cache_table[x].expiration # None

\* ------------------------------------------------------------------ C14
\* C14: in a cache with frequency f, a mutating call whose clock reading is
\* earlier than created_time + f does not sweep and leaves an absent
\* last_scan_time absent; a call that sweeps when last_scan_time is set reads
\* the clock at least f after that value and replaces it with its reading, so
\* each value of last_scan_time is at least f greater than the one it replaces.
C14_SpacingStep ==
    (last'.op \in MutatingOps /\ full_scan_frequency # None) =>
        LET f == The(full_scan_frequency)
        IN  /\ clock < created_time + f =>
                  /\ ~last'.swept
                  /\ last_scan_time = None => last_scan_time' = None
            /\ (last'.swept /\ last_scan_time # None) =>
                  /\ clock >= The(last_scan_time) + f
                  /\ The(last_scan_time') >= The(last_scan_time) + f
            /\ ~last'.swept => last_scan_time' = last_scan_time

C14_SweepsSpaced == [][C14_SpacingStep]_vars

\* With frequency 1 and construction at 0, a call at reading 2 has swept and
\* has replaced the last_scan_time 1 of an earlier sweep.
C14_Witness ==
    /\ full_scan_frequency = Some(1)
    /\ created_time = 0
    /\ last.swept
    /\ last.replaced = Some(1)
    /\ last_scan_time = Some(2)

\* ------------------------------------------------------------------ C15
\* C15: last_scan_time is absent or a clock value a mutating call has read.  It
\* becomes present only by the sweep of a mutating call, never becomes absent
\* again, is never earlier than created_time, equals the clock reading of the
\* call that set it, and a call that changes it replaces it with a value that
\* is not smaller.
C15_ScanTimeStep ==
    /\ last_scan_time' # last_scan_time =>
          /\ last'.op \in MutatingOps
          /\ last'.swept
          /\ last'.now = Some(clock)
          /\ last_scan_time' = Some(clock)
          /\ last_scan_time # None => The(last_scan_time') >= The(last_scan_time)
    /\ last_scan_time # None => last_scan_time' # None
    /\ last_scan_time' # None => The(last_scan_time') >= created_time'
    /\ last'.swept => last_scan_time' = last'.now

C15_ScanTimeMonotone == [][C15_ScanTimeStep]_vars

\* With frequency 0, a call has swept and has replaced an earlier
\* last_scan_time by its own, later, clock reading.
C15_Witness ==
    /\ full_scan_frequency = Some(0)
    /\ last.swept
    /\ last.replaced # None
    /\ last_scan_time = last.now
    /\ The(last_scan_time) > The(last.replaced)

\* ------------------------------------------------------------------ C16
\* C16: a get_or_insert(k, ..) that finds a live entry for k leaves that entry,
\* value and expiration, as it was and does not call the factory.  An entry
\* that is in the table before and after a step differs only if the step is an
\* insert on its key, or a get_or_insert on its key that found it expired, and
\* then it is the entry that call constructed.
C16_EntryStep ==
    \A k \in Keys :
        /\ (/\ last'.op = "get_or_insert" /\ last'.key = Some(k)
            /\ LiveAt(cache_table, k, clock)) =>
                /\ k \in DOMAIN cache_table'
                /\ cache_table'[k].value = cache_table[k].value
                /\ cache_table'[k].expiration = cache_table[k].expiration
                /\ last'.calls = 0
        /\ (/\ k \in DOMAIN cache_table /\ k \in DOMAIN cache_table'
            /\ cache_table'[k] # cache_table[k]) =>
                /\ last'.key = Some(k)
                /\ \/ last'.op = "insert"
                   \/ /\ last'.op = "get_or_insert"
                      /\ ~LiveAt(cache_table, k, clock)
                      /\ last'.calls = 1
                /\ cache_table'[k] = Constructed(last')

C16_ExpirationFixed == [][C16_EntryStep]_vars

\* A get_or_insert with lifetime 0 has found a live entry with another value
\* than its factory's: the entry is still live at the call's reading, which an
\* entry built with lifetime 0 would not be.
C16_Witness ==
    \E k \in Keys :
        /\ last.op = "get_or_insert" /\ last.key = Some(k)
        /\ last.lifetime = Some(0)
        /\ last.calls = 0
        /\ LiveAt(cache_table, k, The(last.now))
        /\ cache_table[k].value # The(last.value)

\* ------------------------------------------------------------------ C17
\* C17 as stated: the value get_or_insert(k, ..) has returned belongs to an
\* entry that is not expired at the call's clock reading, and a get(k) at the
\* clock as the call left it returns that value, for every lifetime.
C17_Original ==
    \A k \in Keys :
        (last.op = "get_or_insert" /\ last.key = Some(k)) =>
            /\ LiveAt(cache_table, k, The(last.now))
            /\ get(Self, k, clock) = Some(last.ret)

\* C17, amended: the value get_or_insert(k, ..) has returned is the value of the
\* entry the table holds for k.  When the call found the entry (factory not
\* called), the entry is not expired at the call's clock reading and a get(k)
\* right after returns the same value.  When the call installed the entry, a
\* get(k) right after returns the same value unless the lifetime is 0, and
\* returns None when the lifetime is 0: that entry expires at the reading at
\* which it was built.
C17_ReturnedEntry ==
    \A k \in Keys :
        (last.op = "get_or_insert" /\ last.key = Some(k)) =>
            /\ k \in DOMAIN cache_table
            /\ cache_table[k].value = last.ret
            /\ last.calls = 0 =>
                  /\ LiveAt(cache_table, k, The(last.now))
                  /\ get(Self, k, clock) = Some(last.ret)
            /\ last.calls = 1 =>
                  /\ last.entry_time = Some(clock)
                  /\ get(Self, k, clock) =
                        IF last.lifetime = Some(0) THEN None ELSE Some(last.ret)

\* A get_or_insert with lifetime 0 has installed an entry and returned its
\* value; get on the same key, with the clock where the call left it, gives
\* None.
C17_Witness ==
    \E k \in Keys :
        /\ last.op = "get_or_insert" /\ last.key = Some(k)
        /\ last.calls = 1
        /\ last.lifetime = Some(0)
        /\ k \in DOMAIN cache_table
        /\ cache_table[k].value = last.ret
        /\ get(Self, k, clock) = None

\* ------------------------------------------------------------------ C19
\* C19: on a clock that never goes backwards, in a cache with a scan frequency,
\* every entry written before the call that ran the latest sweep (presweep) has
\* an expiration that is absent or strictly later than last_scan_time; so an
\* entry in the table whose expiration is not later than last_scan_time was
\* written by the sweeping call itself or by a later call.
C19_SweptEntriesLive ==
    /\ presweep # {} => (full_scan_frequency # None /\ last_scan_time # None)
    /\ \A k \in presweep : LiveAt(cache_table, k, The(last_scan_time))
    /\ \A k \in DOMAIN cache_table :
          (last_scan_time # None /\ ~LiveAt(cache_table, k, The(last_scan_time)))
              => k \notin presweep

\* After a sweep, the table holds an entry with a finite expiration written
\* before the sweeping call, and an entry written since whose expiration is not
\* later than last_scan_time.
C19_Witness ==
    \E k \in presweep, x \in DOMAIN cache_table \ presweep :
        /\ last_scan_time # None
        /\ cache_table[k].expiration # None
        /\ ~LiveAt(cache_table, x, The(last_scan_time))

\* ------------------------------------------------------------------ C18
\* The entry for k has a finite expiration that the clock reaches, and a sweep
\* falls due no later than the last clock value.
C18_InReach(k) ==
    /\ full_scan_frequency # None
    /\ k \in DOMAIN cache_table
    /\ cache_table[k].expiration # None
    /\ The(cache_table[k].expiration) <= MaxTime
    /\ Reference + The(full_scan_frequency) <= MaxTime

\* The entry for k has left the table: the key is absent, or the call that has
\* just returned wrote a new entry over it.
C18_Gone(k) ==
    \/ k \notin DOMAIN cache_table
    \/ /\ last.op \in {"insert", "get_or_insert"}
       /\ last.key = Some(k)
       /\ last.entry_time # None

\* C18: in a cache with a scan frequency, when the clock keeps advancing and
\* mutating methods keep being called, every entry with a finite expiration
\* eventually leaves the table, by a sweep, an overwrite or a remove, also when
\* its own key is never used again.
C18_ExpiredEventuallyPurged ==
    \A k \in Keys : C18_InReach(k) ~> C18_Gone(k)

\* With frequency 1, the sweep of a call on another key has taken an entry out
\* of the table.
C18_Witness ==
    /\ full_scan_frequency = Some(1)
    /\ last.op \in MutatingOps
    /\ last.swept
    /\ last.purged # {}
    /\ last.key \cap last.purged = {}

\* ------------------------------------------------------------------ C12
\* No call owns a guard while its body runs; the Mutex is held exactly by the
\* thread whose innermost call owns a guard, and no other call owns one.
C12_NoGuardInBody ==
    \A t \in Threads : \A i \in 1..Len(stack[t]) :
        /\ stack[t][i].pc \in {"body", "wait", "eval"} => ~stack[t][i].guard
        /\ stack[t][i].guard <=> stack[t][i].pc \in {"match", "hit", "drop",
                                                     "insert", "miss"}
        /\ stack[t][i].guard => (i = Len(stack[t]) /\ mutex = Some(t))
        /\ (mutex = Some(t) /\ i = Len(stack[t])) => stack[t][i].guard

\* A thread with a call under way can take a step unless it waits for a
\* Mutex that is held.
Runnable(t) ==
    /\ stack[t] # <<>>
    /\ Top(t).pc \in {"lock", "relock"} => mutex = None

\* While calls are under way, some thread can take a step.
C12_NoDeadlock ==
    (\E t \in Threads : stack[t] # <<>>) => (\E t \in Threads : Runnable(t))

\* C12: a function defined with cached! never holds the Mutex while its body
\* runs: the guard is taken for the lookup, dropped before the body and taken
\* again only for the insert; with a body that calls the function recursively
\* and two threads calling it concurrently there is no deadlock, and every
\* call made eventually returns.
C12_CachedNeverDeadlocks ==
    /\ [](C12_NoGuardInBody /\ C12_NoDeadlock)
    /\ \A t \in Threads : (stack[t] # <<>>) ~> (stack[t] = <<>>)

\* A thread is inside the body of a call, in the recursive call, which waits
\* for the Mutex that the other thread holds.
C12_Witness ==
    \E t \in Threads, u \in Threads :
        /\ t # u
        /\ Len(stack[t]) = 2
        /\ stack[t][1].pc = "wait"
        /\ Top(t).pc = "lock"
        /\ mutex = Some(u)

\* ------------------------------------------------------------------ C20
\* C20: once a call has inserted a result for x, every call at x that starts
\* afterwards (late) goes from the lookup straight to the return with the
\* value the table holds, and never evaluates the body; a result is stored
\* without expiration, is found at every clock reading and is never removed;
\* calls at the same argument that started before the first insert may each
\* evaluate the body, and the table holds the value of the last insert.
C20_InsertedIsServed ==
    /\ \A t \in Threads : \A i \in 1..Len(stack[t]) :
          /\ stack[t][i].late =>
                /\ stack[t][i].pc \in {"lock", "match", "hit"}
                /\ stack[t][i].pc = "hit" =>
                      stack[t][i].value = Some(cache_table[stack[t][i].arg].value)
          /\ stack[t][i].pc = "hit" =>
                stack[t][i].value = Some(inserted[stack[t][i].arg])
    /\ DOMAIN cache_table = DOMAIN inserted
    /\ \A x \in DOMAIN inserted :
          /\ cache_table[x] = [value |-> inserted[x], expiration |-> None]
          /\ \A now \in 0..MaxTime : get(Self, x, now) = Some(inserted[x])

\* A call that started after an insert for its argument is about to return
\* the stored value, while a call of the other thread at the same argument,
\* started before that insert, has evaluated the body to another value and
\* waits to insert it.
C20_Witness ==
    \E t \in Threads, u \in Threads :
        /\ t # u
        /\ stack[t] # <<>> /\ stack[u] # <<>>
        /\ Top(t).late /\ Top(t).pc = "hit"
        /\ Top(u).arg = Top(t).arg
        /\ ~Top(u).late /\ Top(u).pc = "relock"
        /\ Top(u).value # Top(t).value

====
